---- MODULE Spec2Model ----
(***************************************************************************)
(* Reachability monitor of network-change: the lifecycle of a Monitor      *)
(* (new / start / start_weak / stop / drop), the native change             *)
(* subscriptions, the background pump, the connectivity state store and    *)
(* the hand-off of snapshots to the consumer callback, for the three       *)
(* platform back ends (src/src/linux.rs, src/src/windows.rs,               *)
(* src/src/macos.rs).                                                      *)
(*                                                                         *)
(* Threads: "js" is the host runtime's thread, on which every API call     *)
(* and every consumer callback runs; "pump" is the native context that     *)
(* runs change callbacks.                                                  *)
(***************************************************************************)
EXTENDS Integers, Sequences, FiniteSets, TLC

VARIABLES
  platform,        \* which back end lib.rs compiles in
  solo,            \* whether the process constructs one Monitor only
  evidence,        \* what the native Signal Source reports now
  mstate,          \* lifecycle of each Monitor as seen by the caller
  owner,           \* owner[h]: the Monitor whose start call built handler h, and the
                   \* number of native events there had been when that call
                   \* returned Ok (-1: it has not)
  nStart,          \* number of start/start_weak calls that built a handler
  nEvent,          \* number of native change events so far
  pending,         \* native callback invocations dispatched and not yet run
                   \* (linux: emitted and not yet begun)
  queue,           \* threadsafe-function calls waiting for the js thread
  jsPc,            \* what the js thread is inside of
  last,            \* the last thing that completed on the js thread
  NETWORK_INFO,    \* linux: the process-wide state store
  GLOBAL_HANDLER,  \* linux: the process-wide handler cell (0: None)
  infoLock,        \* linux: holder of the NETWORK_INFO mutex
  handlerLock,     \* linux: holder of the GLOBAL_HANDLER mutex
  cbPc,            \* linux: position of each thread inside network_changed_cb
  cbLoop,          \* linux: the loop thread that runs the pump's callback (0: none)
  lx,              \* linux: fields of each InternetMonitor and its native objects
  wn,              \* windows: fields of each InternetMonitor
  sinks,           \* windows: the sinks advised on the connection points
  mc               \* macos: each NWPathMonitor's native monitor

vars == <<platform, solo, evidence, mstate, owner, nStart, nEvent, pending, queue,
          jsPc, last, NETWORK_INFO, GLOBAL_HANDLER, infoLock, handlerLock,
          cbPc, cbLoop, lx, wn, sinks, mc>>

linuxVars == <<NETWORK_INFO, GLOBAL_HANDLER, infoLock, handlerLock, cbPc, cbLoop, lx>>
otherThanLinux == <<wn, sinks, mc>>
otherThanWindows == <<linuxVars, mc>>
otherThanMacos == <<linuxVars, wn, sinks>>

(***************************************************************************)
(* Bounds of the model.                                                    *)
(***************************************************************************)
MaxMonitors == 2
MaxStarts == 2
MaxEvents == 2
MaxQueue == 2
\* How many native calls may be between two of their own steps at a time.
MaxMidway == 1

Monitors == 1..MaxMonitors
Handlers == 1..MaxStarts
Platforms == {"linux", "windows", "macos"}

(***************************************************************************)
(* lib.rs: the canonical data model.                                       *)
(***************************************************************************)
NetworkStatus == {"Invalid", "Satisfied", "Unsatisfied", "Satisfiable", "Unknown"}

NetworkInfo(st, exp, low, v4, v6, dns) ==
  [status |-> st, is_expensive |-> exp, is_low_data_mode |-> low,
   has_ipv4 |-> v4, has_ipv6 |-> v6, has_dns |-> dns]

\* The value NETWORK_INFO is created with.
DefaultInfo == NetworkInfo("Invalid", FALSE, FALSE, FALSE, FALSE, FALSE)

(***************************************************************************)
(* linux: what NetworkManager can report.  A device is its type and        *)
(* whether it has an IPv4 / IPv6 configuration; primary is the primary     *)
(* connection: "null" (none), "noip4" (no IPv4 config), "nons" (no         *)
(* nameserver array) or "dns".                                             *)
(***************************************************************************)
Device(type, ip4, ip6) == [type |-> type, ip4 |-> ip4, ip6 |-> ip6]

LinuxEvidence ==
  { [conn |-> "FULL", metered |-> "NO",
     devices |-> <<Device("ETHERNET", TRUE, FALSE)>>, primary |-> "dns"],
    [conn |-> "LIMITED", metered |-> "YES",
     devices |-> <<Device("WIFI", FALSE, FALSE), Device("MODEM", FALSE, TRUE)>>,
     primary |-> "nons"],
    [conn |-> "NONE", metered |-> "UNKNOWN",
     devices |-> <<>>, primary |-> "null"] }


\* linux.rs 172-193: the loop over the devices, from device i on.
RECURSIVE scan_devices(_, _, _)
scan_devices(info, devices, i) ==
  IF i > Len(devices) THEN info
  ELSE LET d == devices[i]
           a == IF d.type = "MODEM" THEN [info EXCEPT !.is_expensive = TRUE] ELSE info
           b == IF d.ip4 THEN [a EXCEPT !.has_ipv4 = TRUE] ELSE a
           c == IF d.ip6 THEN [b EXCEPT !.has_ipv6 = TRUE] ELSE b
       IN scan_devices(c, devices, i + 1)

\* A mapping that takes a captive portal for no connectivity.
portal_unsatisfied(conn) ==
  CASE conn = "FULL" -> "Satisfied"
    [] conn = "LIMITED" -> "Satisfiable"
    [] conn \in {"NONE", "PORTAL"} -> "Unsatisfied"
    [] OTHER -> "Invalid"

\* linux.rs 204-220: the status of a connectivity value.
linux_status(conn) ==
  CASE conn = "FULL" -> "Satisfied"
    [] conn \in {"LIMITED", "PORTAL"} -> "Satisfiable"
    [] conn = "NONE" -> "Unsatisfied"
    [] OTHER -> "Invalid"

\* A callback that recomputes every flag from what the client reports now.
flags_recomputed(info, ev) ==
  LET a == [info EXCEPT !.is_low_data_mode = ev.metered \in {"YES", "GUESS_YES"},
                        !.is_expensive = FALSE, !.has_ipv4 = FALSE,
                        !.has_ipv6 = FALSE, !.has_dns = FALSE]
      b == scan_devices(a, ev.devices, 1)
      c == IF ev.primary = "dns" THEN [b EXCEPT !.has_dns = TRUE] ELSE b
  IN [c EXCEPT !.status = linux_status(ev.conn)]

\* A callback that leaves the stored status alone when the connectivity is
\* none of the values it names.
status_kept(info, ev) ==
  LET a == [info EXCEPT !.is_low_data_mode = ev.metered \in {"YES", "GUESS_YES"}]
      b == scan_devices(a, ev.devices, 1)
      c == IF ev.primary = "dns" THEN [b EXCEPT !.has_dns = TRUE] ELSE b
  IN IF ev.conn \in {"FULL", "LIMITED", "PORTAL", "NONE"}
     THEN [c EXCEPT !.status = linux_status(ev.conn)] ELSE c

\* linux.rs 164-220: what network_changed_cb leaves in the store, given the
\* store's content and what the client reports.
network_changed_cb(info, ev) ==
  LET a == [info EXCEPT !.is_low_data_mode = ev.metered \in {"YES", "GUESS_YES"}]
      b == scan_devices(a, ev.devices, 1)
      c == IF ev.primary = "dns" THEN [b EXCEPT !.has_dns = TRUE] ELSE b
  IN [c EXCEPT !.status = linux_status(ev.conn)]

(***************************************************************************)
(* The js thread and the hand-off to it.                                   *)
(***************************************************************************)
JsIdle == [op |-> "idle", m |-> 0, native_ok |-> TRUE, seen |-> <<>>]

\* A completed call: its result; native_ok, whether the native calls it made
\* all succeeded; from, the lifecycle state of the Monitor when it was made;
\* seen, for new, the evidence its seed probe read and the number of native
\* events there had been; ev, for a delivery, the native event it reports
\* (0: none).
Completed(op, m, res, h, info, native_ok) ==
  [op |-> op, m |-> m, res |-> res, h |-> h, info |-> info, native_ok |-> native_ok,
   from |-> IF m \in Monitors THEN mstate[m] ELSE "Absent", seen |-> <<>>, ev |-> 0]

\* ThreadsafeFunction::call: the value joins the calls waiting for the js thread.
\* ev is the native event the value reports (0: none); late tells that an update
\* committed to the same Monitor's store after this one was handed over before it.
tsfn_call(q, h, value, ev, late) ==
  Append(q, [h |-> h, value |-> value, ev |-> ev, late |-> late])

\* The first Monitor not constructed yet.
NextMonitor(m) ==
  /\ mstate[m] = "Absent"
  /\ solo => m = 1
  /\ \A k \in Monitors : k < m => mstate[k] # "Absent"

Alive(m) == mstate[m] \in {"Created", "Running", "Stopped"}

(***************************************************************************)
(* linux: network_changed_cb, step by step, on thread t.                   *)
(***************************************************************************)
\* linux.rs 164-220: take NETWORK_INFO and rewrite it from the client.
cb_lock_info(t) ==
  /\ infoLock = "free"
  /\ infoLock' = t
  /\ NETWORK_INFO' = network_changed_cb(NETWORK_INFO, evidence)
  /\ cbPc' = [cbPc EXCEPT ![t] = "info"]

\* linux.rs 222: take GLOBAL_HANDLER while NETWORK_INFO is held.
cb_lock_handler(t) ==
  /\ cbPc[t] = "info"
  /\ handlerLock = "free"
  /\ handlerLock' = t
  /\ cbPc' = [cbPc EXCEPT ![t] = "handler"]

\* A callback that returns with the guard of GLOBAL_HANDLER still held.
handler_guard_kept(t) ==
  /\ cbPc[t] = "handler"
  /\ GLOBAL_HANDLER # 0 => Len(queue) < MaxQueue
  /\ queue' = IF GLOBAL_HANDLER # 0
              THEN tsfn_call(queue, GLOBAL_HANDLER, NETWORK_INFO,
                             IF t = "pump" THEN nEvent ELSE 0, FALSE)
              ELSE queue
  /\ infoLock' = "free"
  /\ handlerLock' = handlerLock
  /\ cbPc' = [cbPc EXCEPT ![t] = "none"]

\* linux.rs 222-225: forward a clone to the handler, if any; both guards drop.
cb_call(t) ==
  /\ cbPc[t] = "handler"
  /\ GLOBAL_HANDLER # 0 => Len(queue) < MaxQueue
  /\ queue' = IF GLOBAL_HANDLER # 0
              THEN tsfn_call(queue, GLOBAL_HANDLER, NETWORK_INFO,
                             IF t = "pump" THEN nEvent ELSE 0, FALSE)
              ELSE queue
  /\ infoLock' = "free"
  /\ handlerLock' = "free"
  /\ cbPc' = [cbPc EXCEPT ![t] = "none"]

(***************************************************************************)
(* linux: InternetMonitor.                                                 *)
(***************************************************************************)
LxFresh == [signal_id |-> 0, conns |-> {}, loop |-> "none", is_running |-> FALSE]

\* A null check that lets every client through.
never_null(client_ok) == FALSE

\* linux.rs 59: the client pointer is null.
client_is_null(client_ok) == ~client_ok

\* linux.rs 57-66: nm_client_new, the null check, and the seed probe begins.
Linux_new(m, client_ok) ==
  /\ platform = "linux" /\ jsPc = JsIdle /\ NextMonitor(m)
  /\ IF client_is_null(client_ok)
     THEN /\ last' = Completed("new", m, "err", 0, DefaultInfo, client_ok)
          /\ UNCHANGED <<jsPc, NETWORK_INFO, infoLock, cbPc>>
     ELSE /\ cb_lock_info("js")
          /\ jsPc' = [op |-> "new", m |-> m, native_ok |-> client_ok,
                       seen |-> <<evidence, nEvent>>]
          /\ UNCHANGED last
  /\ UNCHANGED <<otherThanLinux, platform, solo, evidence, mstate, owner, nStart, nEvent, pending, queue,
                 GLOBAL_HANDLER, handlerLock, cbLoop, lx>>

\* linux.rs 66, 222: the seed probe takes GLOBAL_HANDLER.
Linux_new_lock_handler ==
  /\ platform = "linux" /\ jsPc.op = "new"
  /\ cb_lock_handler("js")
  /\ UNCHANGED <<otherThanLinux, platform, solo, evidence, mstate, owner, nStart, nEvent, pending, queue,
                 jsPc, last, NETWORK_INFO, GLOBAL_HANDLER, infoLock, cbLoop, lx>>

\* linux.rs 66-81: the seed probe ends; the main loop is made and its thread spawned.
Linux_new_return ==
  /\ platform = "linux" /\ jsPc.op = "new"
  /\ cb_call("js")
  /\ lx' = [lx EXCEPT ![jsPc.m] = [LxFresh EXCEPT !.loop = "spawned"]]
  /\ mstate' = [mstate EXCEPT ![jsPc.m] = "Created"]
  /\ last' = [Completed("new", jsPc.m, "ok", 0, DefaultInfo, jsPc.native_ok)
                EXCEPT !.seen = jsPc.seen]
  /\ jsPc' = JsIdle
  /\ UNCHANGED <<otherThanLinux, platform, solo, evidence, owner, nStart, nEvent, pending,
                 NETWORK_INFO, GLOBAL_HANDLER, cbLoop>>

\* linux.rs 83-86: current.
Linux_current(m) ==
  /\ platform = "linux" /\ jsPc = JsIdle /\ Alive(m)
  /\ infoLock = "free"
  /\ last' = Completed("current", m, "ok", 0, NETWORK_INFO, TRUE)
  /\ UNCHANGED <<otherThanLinux, platform, solo, evidence, mstate, owner, nStart, nEvent, pending, queue,
                 jsPc, NETWORK_INFO, GLOBAL_HANDLER, infoLock, handlerLock,
                 cbPc, cbLoop, lx>>

\* The emission of notify::connectivity: one invocation per connected handler.
RECURSIVE signal_invocations(_, _)
signal_invocations(m, id) ==
  IF m > MaxMonitors THEN <<>>
  ELSE IF id > MaxStarts THEN signal_invocations(m + 1, 1)
  ELSE (IF id \in lx[m].conns THEN <<[kind |-> "signal", m |-> m, h |-> id, ev |-> nEvent + 1]>> ELSE <<>>)
       \o signal_invocations(m, id + 1)

\* The invocations of q other than those of connection id of client m.
RECURSIVE without_connection(_, _, _)
without_connection(q, m, id) ==
  IF q = <<>> THEN <<>>
  ELSE (IF Head(q).m = m /\ Head(q).h = id THEN <<>> ELSE <<Head(q)>>)
       \o without_connection(Tail(q), m, id)

\* A start_inner that connects the signal before it registers the handler.
connect_first == <<"connect", "handler">>

\* linux.rs 119-124, 126-134: the two effects of start_inner, in its order.
start_inner_steps == <<"handler", "connect">>

\* linux.rs 114-138: an effect of start_inner on Monitor m; the handler id h is
\* also the id that g_signal_connect returns for the connection made by this
\* call.
Linux_start_inner(step, m, h) ==
  IF step = "handler"
  THEN /\ handlerLock = "free"
       /\ GLOBAL_HANDLER' = h
       /\ UNCHANGED lx
  ELSE /\ lx' = [lx EXCEPT ![m].signal_id = h, ![m].conns = @ \cup {h}]
       /\ UNCHANGED GLOBAL_HANDLER

\* linux.rs 90-112: start / start_weak build the threadsafe function (which may
\* fail) and call start_inner, which makes its first effect.
Linux_start_any(m, build_ok) ==
  /\ platform = "linux" /\ jsPc = JsIdle /\ Alive(m)
  /\ nStart < MaxStarts
  /\ IF build_ok
     THEN /\ Linux_start_inner(start_inner_steps[1], m, nStart + 1)
          /\ nStart' = nStart + 1
          /\ owner' = [owner EXCEPT ![nStart + 1] = [m |-> m, at |-> -1]]
          /\ jsPc' = [op |-> "start", m |-> m, native_ok |-> TRUE, seen |-> <<>>]
          /\ UNCHANGED last
     ELSE /\ last' = Completed("start", m, "err", 0, DefaultInfo, FALSE)
          /\ UNCHANGED <<GLOBAL_HANDLER, lx, nStart, owner, jsPc>>
  /\ UNCHANGED <<otherThanLinux, platform, solo, evidence, mstate, nEvent, pending, queue,
                 NETWORK_INFO, infoLock, handlerLock, cbPc, cbLoop>>

\* linux.rs 114-138: start_inner makes its second effect and start returns Ok.
Linux_start_return ==
  /\ platform = "linux" /\ jsPc.op = "start"
  /\ Linux_start_inner(start_inner_steps[2], jsPc.m, nStart)
  /\ mstate' = [mstate EXCEPT ![jsPc.m] = "Running"]
  /\ owner' = [owner EXCEPT ![nStart].at = nEvent]
  /\ last' = Completed("start", jsPc.m, "ok", nStart, DefaultInfo, TRUE)
  /\ jsPc' = JsIdle
  /\ UNCHANGED <<otherThanLinux, platform, solo, evidence, nStart, nEvent, pending, queue,
                 NETWORK_INFO, infoLock, handlerLock, cbPc, cbLoop>>

Linux_start(m, build_ok) == Linux_start_any(m, build_ok)

Linux_start_weak(m, build_ok) == Linux_start_any(m, build_ok)

\* linux.rs 144-151: the body of stop: what it leaves in the Monitor's fields.
Linux_stop_fields(m) ==
  [lx[m] EXCEPT !.signal_id = 0, !.conns = @ \ {lx[m].signal_id}]

\* linux.rs 140-151: stop.
Linux_stop(m) ==
  /\ platform = "linux" /\ jsPc = JsIdle /\ Alive(m)
  /\ lx' = [lx EXCEPT ![m] = Linux_stop_fields(m)]
  /\ pending' = without_connection(pending, m, lx[m].signal_id)
  /\ mstate' = [mstate EXCEPT ![m] = "Stopped"]
  /\ last' = Completed("stop", m, "ok", 0, DefaultInfo, TRUE)
  /\ UNCHANGED <<otherThanLinux, platform, solo, evidence, owner, nStart, nEvent, queue, jsPc,
                 NETWORK_INFO, GLOBAL_HANDLER, infoLock, handlerLock, cbPc, cbLoop>>

\* linux.rs 41-47: drop: stop, then g_main_loop_quit; the join is next.
Linux_drop(m) ==
  /\ platform = "linux" /\ jsPc = JsIdle /\ Alive(m)
  /\ lx' = [lx EXCEPT ![m] = [Linux_stop_fields(m) EXCEPT !.is_running = FALSE]]
  /\ pending' = without_connection(pending, m, lx[m].signal_id)
  /\ jsPc' = [op |-> "join", m |-> m, native_ok |-> TRUE, seen |-> <<>>]
  /\ UNCHANGED <<otherThanLinux, platform, solo, evidence, mstate, owner, nStart, nEvent, queue, last,
                 NETWORK_INFO, GLOBAL_HANDLER, infoLock, handlerLock, cbPc, cbLoop>>

\* linux.rs 48-50: the join returns once the loop thread has ended.
Linux_drop_join ==
  /\ platform = "linux" /\ jsPc.op = "join"
  /\ lx[jsPc.m].loop = "exited"
  /\ mstate' = [mstate EXCEPT ![jsPc.m] = "Dropped"]
  /\ last' = Completed("drop", jsPc.m, "ok", 0, DefaultInfo, TRUE)
  /\ jsPc' = JsIdle
  /\ UNCHANGED <<otherThanLinux, platform, solo, evidence, owner, nStart, nEvent, pending, queue,
                 NETWORK_INFO, GLOBAL_HANDLER, infoLock, handlerLock, cbPc, cbLoop, lx>>

(***************************************************************************)
(* linux: the thread spawned in new, and the callbacks it runs.            *)
(***************************************************************************)
\* linux.rs 69-73: the thread enters g_main_loop_run, which marks the loop running.
Linux_loop_run(t) ==
  /\ platform = "linux" /\ lx[t].loop = "spawned"
  /\ lx' = [lx EXCEPT ![t].loop = "running", ![t].is_running = TRUE]
  /\ UNCHANGED <<otherThanLinux, platform, solo, evidence, mstate, owner, nStart, nEvent, pending, queue,
                 jsPc, last, NETWORK_INFO, GLOBAL_HANDLER, infoLock, handlerLock,
                 cbPc, cbLoop>>

\* linux.rs 72: g_main_loop_run returns once the loop is no longer marked running.
Linux_loop_exit(t) ==
  /\ platform = "linux" /\ lx[t].loop = "running"
  /\ ~lx[t].is_running /\ cbLoop # t
  /\ lx' = [lx EXCEPT ![t].loop = "exited"]
  /\ UNCHANGED <<otherThanLinux, platform, solo, evidence, mstate, owner, nStart, nEvent, pending, queue,
                 jsPc, last, NETWORK_INFO, GLOBAL_HANDLER, infoLock, handlerLock,
                 cbPc, cbLoop>>

\* linux.rs 159-164: a loop thread invokes the next connected callback.
Linux_cb_begin(t) ==
  /\ platform = "linux" /\ lx[t].loop = "running"
  /\ cbLoop = 0 /\ pending # <<>>
  /\ cb_lock_info("pump")
  /\ pending' = Tail(pending)
  /\ cbLoop' = t
  /\ UNCHANGED <<otherThanLinux, platform, solo, evidence, mstate, owner, nStart, nEvent, queue,
                 jsPc, last, GLOBAL_HANDLER, handlerLock, lx>>

\* linux.rs 222: the pump's callback takes GLOBAL_HANDLER.
Linux_cb_lock_handler ==
  /\ platform = "linux" /\ cbLoop # 0
  /\ cb_lock_handler("pump")
  /\ UNCHANGED <<otherThanLinux, platform, solo, evidence, mstate, owner, nStart, nEvent, pending, queue,
                 jsPc, last, NETWORK_INFO, GLOBAL_HANDLER, infoLock, cbLoop, lx>>

\* linux.rs 222-225: the pump's callback forwards and returns.
Linux_cb_end ==
  /\ platform = "linux" /\ cbLoop # 0
  /\ cb_call("pump")
  /\ cbLoop' = 0
  /\ UNCHANGED <<otherThanLinux, platform, solo, evidence, mstate, owner, nStart, nEvent, pending,
                 jsPc, last, NETWORK_INFO, GLOBAL_HANDLER, lx>>

\* NetworkManager's connectivity changes: notify::connectivity is emitted to every
\* connected handler of every client.
Linux_native_change(ev) ==
  /\ platform = "linux" /\ nEvent < MaxEvents
  /\ pending = <<>> /\ cbLoop = 0
  /\ ev.conn # evidence.conn
  /\ evidence' = ev
  /\ nEvent' = nEvent + 1
  /\ pending' = signal_invocations(1, 1)
  /\ UNCHANGED <<otherThanLinux, platform, solo, mstate, owner, nStart, queue, jsPc, last,
                 NETWORK_INFO, GLOBAL_HANDLER, infoLock, handlerLock, cbPc, cbLoop, lx>>

(***************************************************************************)
(* windows: what the Network List Manager can report.  bits are the        *)
(* NLM_CONNECTIVITY flags ("V4I"/"V6I": internet, "V4N"/"V6N": no          *)
(* traffic); an adapter is whether it is operationally up and whether it   *)
(* has a DNS server; has_conn is whether a network connection is           *)
(* enumerated; cost is the connection cost; unlimited is                   *)
(* DataLimitInMegabytes = u32::MAX; fail names the native queries that     *)
(* fail now ("nlm": the list manager's, "adapters": GetAdaptersAddresses). *)
(***************************************************************************)
Adapter(up, dns) == [up |-> up, dns |-> dns]

\* Internet reachable over IPv4; the first adapter is down.
WinFull ==
  [bits |-> {"V4I"}, internet |-> TRUE, connected |-> TRUE, has_conn |-> TRUE,
   adapters |-> <<Adapter(FALSE, TRUE), Adapter(TRUE, TRUE)>>, fail |-> "none"]
\* Connected, IPv4 without traffic; the first adapter that is up has no DNS server.
WinNoTraffic ==
  [bits |-> {"V4N", "V6I"}, internet |-> FALSE, connected |-> TRUE, has_conn |-> TRUE,
   adapters |-> <<Adapter(TRUE, FALSE), Adapter(TRUE, TRUE)>>, fail |-> "none"]
\* Not connected, no network connection enumerated, an adapter up.
WinIdle ==
  [bits |-> {}, internet |-> FALSE, connected |-> FALSE, has_conn |-> FALSE,
   adapters |-> <<Adapter(TRUE, TRUE)>>, fail |-> "none"]
\* Internet reachable over IPv6, and GetAdaptersAddresses fails.
WinAdaptersFail ==
  [bits |-> {"V6I"}, internet |-> TRUE, connected |-> TRUE, has_conn |-> TRUE,
   adapters |-> <<Adapter(TRUE, TRUE)>>, fail |-> "adapters"]

WinConnectivity == {WinFull, WinNoTraffic, WinIdle, WinAdaptersFail}

\* windows.rs 472: NlmConnectionCost::UNRESTRICTED.
UNRESTRICTED == 1
\* windows.rs 473: NlmConnectionCost::FIXED.
FIXED == 2

WinCosts == {UNRESTRICTED, FIXED}

WinEvidence(net, cost, unlimited) ==
  [bits |-> net.bits, internet |-> net.internet, connected |-> net.connected,
   has_conn |-> net.has_conn, adapters |-> net.adapters, fail |-> net.fail,
   cost |-> cost, unlimited |-> unlimited]

\* What the Signal Source may report when the process starts.
WindowsEvidence ==
  { WinEvidence(WinFull, UNRESTRICTED, TRUE),
    WinEvidence(WinIdle, FIXED, FALSE) }

\* windows.rs 150, 644: NetworkStatus as u8.
status_as_u8(st) ==
  CASE st = "Invalid" -> 0 [] st = "Satisfied" -> 1 [] st = "Unsatisfied" -> 2
    [] st = "Satisfiable" -> 3 [] st = "Unknown" -> 4

\* windows.rs 238-245: the status of a stored u8.
status_from_u8(n) ==
  CASE n = 0 -> "Invalid" [] n = 1 -> "Satisfied" [] n = 2 -> "Unsatisfied"
    [] n = 3 -> "Satisfiable" [] n = 4 -> "Unknown" [] OTHER -> "Invalid"

\* windows.rs 590-602: whether an adapter from i on is operationally up.
RECURSIVE has_available_connections(_, _)
has_available_connections(adapters, i) ==
  IF i > Len(adapters) THEN FALSE
  ELSE IF adapters[i].up THEN TRUE
  ELSE has_available_connections(adapters, i + 1)

\* windows.rs 604-616: whether the first adapter that is up, from i on, has a
\* DNS server.
RECURSIVE has_dns(_, _)
has_dns(adapters, i) ==
  IF i > Len(adapters) THEN FALSE
  ELSE IF adapters[i].up THEN adapters[i].dns
  ELSE has_dns(adapters, i + 1)

\* A translator that looks at the no-traffic bits before the internet flag.
traffic_first(bits, ev) ==
  IF ev.connected /\ ("V4N" \in bits \/ "V6N" \in bits) THEN "Unsatisfied"
  ELSE IF ev.internet THEN "Satisfied"
  ELSE IF has_available_connections(ev.adapters, 1) THEN "Satisfiable"
  ELSE "Invalid"

\* windows.rs 635-643: the status of the evidence.
windows_status(bits, ev) ==
  IF ev.internet THEN "Satisfied"
  ELSE IF ev.connected /\ ("V4N" \in bits \/ "V6N" \in bits) THEN "Unsatisfied"
  ELSE IF has_available_connections(ev.adapters, 1) THEN "Satisfiable"
  ELSE "Invalid"

\* The six atomics of a Monitor.
Atoms(st, exp, low, v4, v6, dns) ==
  [status |-> st, is_expensive |-> exp, is_low_data_mode |-> low,
   has_ipv4 |-> v4, has_ipv6 |-> v6, has_dns |-> dns]

\* windows.rs 618-653: get_network_info: whether it returned Ok, the atomics
\* as it leaves them, and the NetworkInfo it returns.
get_network_info(bits, ev, atoms) ==
  LET needs_adapters == ~ev.internet /\ ~(ev.connected /\ ("V4N" \in bits \/ "V6N" \in bits))
      st == windows_status(bits, ev)
      stored == [atoms EXCEPT !.status = status_as_u8(st)]
  IN IF ev.fail = "nlm" \/ (ev.fail = "adapters" /\ needs_adapters)
     THEN [ok |-> FALSE, atoms |-> atoms, info |-> DefaultInfo]
     ELSE IF ev.fail = "adapters"
     THEN [ok |-> FALSE, atoms |-> stored, info |-> DefaultInfo]
     ELSE [ok |-> TRUE, atoms |-> stored,
           info |-> NetworkInfo(st, atoms.is_expensive, atoms.is_low_data_mode,
                                "V4I" \in bits, "V6I" \in bits, has_dns(ev.adapters, 1))]

\* A new that builds the Monitor without probing.
probe_skipped(ev) ==
  [ok |-> TRUE, atoms |-> Atoms(status_as_u8("Invalid"), FALSE, FALSE, FALSE, FALSE, FALSE)]

\* windows.rs 139-192: the seed probe of new: whether it succeeded and the
\* atomics the Monitor is built with.
seed_probe(ev) ==
  LET zero == Atoms(status_as_u8("Invalid"), FALSE, FALSE, FALSE, FALSE, FALSE)
      cost == [zero EXCEPT !.is_expensive = ~ev.unlimited,
                           !.is_low_data_mode = ev.cost > UNRESTRICTED]
      r == get_network_info(ev.bits, ev, cost)
  IN IF ev.fail = "nlm" THEN [ok |-> FALSE, atoms |-> zero]
     ELSE IF ~ev.has_conn THEN [ok |-> TRUE, atoms |-> zero]
     ELSE IF ~r.ok THEN [ok |-> FALSE, atoms |-> zero]
     ELSE [ok |-> TRUE,
           atoms |-> [r.atoms EXCEPT !.has_ipv4 = r.info.has_ipv4,
                                     !.has_ipv6 = r.info.has_ipv6,
                                     !.has_dns = r.info.has_dns]]

\* windows.rs 231-247: current.
windows_current(atoms) ==
  NetworkInfo(status_from_u8(atoms.status), atoms.is_expensive, atoms.is_low_data_mode,
              atoms.has_ipv4, atoms.has_ipv6, atoms.has_dns)

(***************************************************************************)
(* windows: InternetMonitor.                                               *)
(***************************************************************************)
WnFresh ==
  [cookie_net |-> 0, cookie_cost |-> 0, handler |-> 0,
   atoms |-> Atoms(0, FALSE, FALSE, FALSE, FALSE, FALSE)]

\* windows.rs 57-137: a native handle could not be acquired.
handle_failed(native_ok) == ~native_ok

\* windows.rs 54-228: new.
Windows_new(m, native_ok) ==
  /\ platform = "windows" /\ jsPc = JsIdle /\ NextMonitor(m)
  /\ IF handle_failed(native_ok) \/ ~seed_probe(evidence).ok
     THEN /\ last' = Completed("new", m, "err", 0, DefaultInfo, native_ok)
          /\ UNCHANGED <<wn, mstate>>
     ELSE /\ wn' = [wn EXCEPT ![m] = [WnFresh EXCEPT !.atoms = seed_probe(evidence).atoms]]
          /\ mstate' = [mstate EXCEPT ![m] = "Created"]
          /\ last' = [Completed("new", m, "ok", 0, DefaultInfo, native_ok)
                        EXCEPT !.seen = <<evidence, nEvent>>]
  /\ UNCHANGED <<otherThanWindows, platform, solo, evidence, owner, nStart, nEvent,
                 pending, queue, jsPc, sinks>>

\* windows.rs 230-247: current.
Windows_current(m) ==
  /\ platform = "windows" /\ jsPc = JsIdle /\ Alive(m)
  /\ last' = Completed("current", m, "ok", 0, windows_current(wn[m].atoms), TRUE)
  /\ UNCHANGED <<otherThanWindows, platform, solo, evidence, mstate, owner, nStart,
                 nEvent, pending, queue, jsPc, wn, sinks>>

Sink(m, kind, cookie, h) == [m |-> m, kind |-> kind, cookie |-> cookie, h |-> h]

\* windows.rs 275-331: start_inner; the cookies Advise returns for the two
\* sinks of this call are both h.
Windows_start_inner(m, h, adv1_ok, adv2_ok) ==
  IF ~adv1_ok
  THEN /\ last' = Completed("start", m, "err", 0, DefaultInfo, FALSE)
       /\ UNCHANGED <<sinks, wn, mstate>>
  ELSE IF ~adv2_ok
  THEN /\ sinks' = sinks \cup {Sink(m, "net", h, h)}
       /\ last' = Completed("start", m, "err", 0, DefaultInfo, FALSE)
       /\ UNCHANGED <<wn, mstate>>
  ELSE /\ sinks' = sinks \cup {Sink(m, "net", h, h), Sink(m, "cost", h, h)}
       /\ wn' = [wn EXCEPT ![m].cookie_net = h, ![m].cookie_cost = h, ![m].handler = h]
       /\ mstate' = [mstate EXCEPT ![m] = "Running"]
       /\ last' = Completed("start", m, "ok", h, DefaultInfo, TRUE)

\* windows.rs 251-273: start / start_weak build the threadsafe function (which
\* may fail) and call start_inner.
Windows_start_any(m, build_ok, adv1_ok, adv2_ok) ==
  /\ platform = "windows" /\ jsPc = JsIdle /\ Alive(m)
  /\ nStart < MaxStarts
  /\ IF build_ok
     THEN /\ Windows_start_inner(m, nStart + 1, adv1_ok, adv2_ok)
          /\ nStart' = nStart + 1
          /\ owner' = [owner EXCEPT ![nStart + 1] =
                         [m |-> m, at |-> IF adv1_ok /\ adv2_ok THEN nEvent ELSE -1]]
     ELSE /\ last' = Completed("start", m, "err", 0, DefaultInfo, FALSE)
          /\ UNCHANGED <<sinks, wn, mstate, nStart, owner>>
  /\ UNCHANGED <<otherThanWindows, platform, solo, evidence, nEvent, pending, queue, jsPc>>

Windows_start(m, build_ok, adv1_ok, adv2_ok) ==
  Windows_start_any(m, build_ok, adv1_ok, adv2_ok)

Windows_start_weak(m, build_ok, adv1_ok, adv2_ok) ==
  Windows_start_any(m, build_ok, adv1_ok, adv2_ok)

\* IConnectionPoint::Unadvise(cookie) on Monitor m's connection point of the
\* given kind: it fails when no sink is advised under the cookie, and when
\* the native call fails.
Unadvise(advised, m, kind, cookie, native_ok) ==
  LET hit == {s \in advised : s.m = m /\ s.kind = kind /\ s.cookie = cookie}
  IN IF hit = {} \/ ~native_ok
     THEN [ok |-> FALSE, sinks |-> advised]
     ELSE [ok |-> TRUE, sinks |-> advised \ hit]

\* windows.rs 340-350: stop releases the connectivity subscription if its
\* cookie is not 0.
stop_unadvise_net(m, un_ok) ==
  IF wn[m].cookie_net # 0
  THEN Unadvise(sinks, m, "net", wn[m].cookie_net, un_ok)
  ELSE [ok |-> TRUE, sinks |-> sinks]

\* windows.rs 352-362: then the cost subscription, likewise.
stop_unadvise_cost(advised, m, un_ok) ==
  IF wn[m].cookie_cost # 0
  THEN Unadvise(advised, m, "cost", wn[m].cookie_cost, un_ok)
  ELSE [ok |-> TRUE, sinks |-> advised]

\* A stop that also puts the atomics back to their zero values.
stop_resets_store(w) ==
  [w EXCEPT !.handler = 0, !.atoms = Atoms(0, FALSE, FALSE, FALSE, FALSE, FALSE)]

\* windows.rs 364-385: stop puts handlers that do nothing in the Monitor.
stop_fields(w) == [w EXCEPT !.handler = 0]

\* windows.rs 333-388: stop.
Windows_stop(m, un1_ok, un2_ok) ==
  /\ platform = "windows" /\ jsPc = JsIdle /\ Alive(m)
  /\ LET r1 == stop_unadvise_net(m, un1_ok)
         r2 == stop_unadvise_cost(r1.sinks, m, un2_ok)
     IN IF ~r1.ok
        THEN /\ last' = Completed("stop", m, "err", 0, DefaultInfo, un1_ok)
             /\ UNCHANGED <<sinks, wn, mstate>>
        ELSE IF ~r2.ok
        THEN /\ sinks' = r1.sinks
             /\ last' = Completed("stop", m, "err", 0, DefaultInfo, un1_ok /\ un2_ok)
             /\ UNCHANGED <<wn, mstate>>
        ELSE /\ sinks' = r2.sinks
             /\ wn' = [wn EXCEPT ![m] = stop_fields(wn[m])]
             /\ mstate' = [mstate EXCEPT ![m] = "Stopped"]
             /\ last' = Completed("stop", m, "ok", 0, DefaultInfo, un1_ok /\ un2_ok)
  /\ UNCHANGED <<otherThanWindows, platform, solo, evidence, owner, nStart, nEvent,
                 pending, queue, jsPc>>

\* windows.rs 23-39: the struct has no Drop: its fields are released, and
\* nothing is unadvised.
Windows_drop(m) ==
  /\ platform = "windows" /\ jsPc = JsIdle /\ Alive(m)
  /\ mstate' = [mstate EXCEPT ![m] = "Dropped"]
  /\ last' = Completed("drop", m, "ok", 0, DefaultInfo, TRUE)
  /\ UNCHANGED <<otherThanWindows, platform, solo, evidence, owner, nStart, nEvent,
                 pending, queue, jsPc, wn, sinks>>

(***************************************************************************)
(* windows: native events and the sinks they call.                         *)
(***************************************************************************)
\* The calls an event of the given kind makes: one per advised sink of that
\* kind, with the event's arguments.
RECURSIVE sink_invocations(_, _, _, _, _)
sink_invocations(kind, m, cookie, bits, cost) ==
  IF m > MaxMonitors THEN <<>>
  ELSE IF cookie > MaxStarts THEN sink_invocations(kind, m + 1, 1, bits, cost)
  ELSE (IF Sink(m, IF kind = "net" THEN "net" ELSE "cost", cookie, cookie) \in sinks
        THEN <<[kind |-> kind, m |-> m, h |-> cookie, bits |-> bits, cost |-> cost,
                ev |-> nEvent + 1]>>
        ELSE <<>>)
       \o sink_invocations(kind, m, cookie + 1, bits, cost)

\* The connectivity of a network changes: NetworkConnectivityChanged is called
\* on every advised INetworkEvents sink.
Windows_connectivity_changed(net) ==
  /\ platform = "windows" /\ nEvent < MaxEvents
  /\ net \in WinConnectivity
  /\ WinEvidence(net, evidence.cost, evidence.unlimited) # evidence
  /\ evidence' = WinEvidence(net, evidence.cost, evidence.unlimited)
  /\ nEvent' = nEvent + 1
  /\ pending' = pending \o sink_invocations("net", 1, 1, net.bits, 0)
  /\ UNCHANGED <<otherThanWindows, platform, solo, mstate, owner, nStart, queue, jsPc,
                 last, wn, sinks>>

\* The cost of the connection changes: CostChanged is called on every advised
\* INetworkCostManagerEvents sink.
Windows_cost_changed(cost) ==
  /\ platform = "windows" /\ nEvent < MaxEvents
  /\ cost \in WinCosts /\ cost # evidence.cost
  /\ evidence' = [evidence EXCEPT !.cost = cost]
  /\ nEvent' = nEvent + 1
  /\ pending' = pending \o sink_invocations("cost", 1, 1, {}, cost)
  /\ UNCHANGED <<otherThanWindows, platform, solo, mstate, owner, nStart, queue, jsPc,
                 last, wn, sinks>>

\* The data plan changes: DataPlanStatusChanged is called on every advised
\* INetworkCostManagerEvents sink.
Windows_dataplan_changed ==
  /\ platform = "windows" /\ nEvent < MaxEvents
  /\ evidence' = [evidence EXCEPT !.unlimited = ~evidence.unlimited]
  /\ nEvent' = nEvent + 1
  /\ pending' = pending \o sink_invocations("plan", 1, 1, {}, 0)
  /\ UNCHANGED <<otherThanWindows, platform, solo, mstate, owner, nStart, queue, jsPc,
                 last, wn, sinks>>

\* windows.rs 443-457: NetworkConnectivityChanged: the atomics it leaves and
\* the calls waiting after it.
NetworkConnectivityChanged(atoms, q, h, bits, ev) ==
  LET r == get_network_info(bits, evidence, atoms)
  IN [atoms |-> r.atoms, queue |-> IF r.ok THEN tsfn_call(q, h, r.info, ev, FALSE) ELSE q]

\* windows.rs 483-504: CostChanged.
CostChanged(atoms, q, h, newcost, ev) ==
  LET low == newcost > UNRESTRICTED
      stored == [atoms EXCEPT !.is_low_data_mode = low]
  IN [atoms |-> stored,
      queue |-> IF atoms.status \in 0..4
                THEN tsfn_call(q, h, NetworkInfo(status_from_u8(atoms.status),
                                                 atoms.is_expensive, low, atoms.has_ipv4,
                                                 atoms.has_ipv6, atoms.has_dns), ev, FALSE)
                ELSE q]

\* windows.rs 507-517: DataPlanStatusChanged up to its first store: nothing
\* when the plan is limited, is_expensive := false when it is unlimited.
DataPlanStatusChanged_first(atoms, is_unlimited) ==
  IF is_unlimited THEN [atoms EXCEPT !.is_expensive = FALSE] ELSE atoms

\* windows.rs 516-518: the remaining stores of DataPlanStatusChanged.
DataPlanStatusChanged_stores(atoms, is_unlimited) ==
  LET a == IF is_unlimited THEN [atoms EXCEPT !.is_low_data_mode = FALSE] ELSE atoms
  IN [a EXCEPT !.is_expensive = ~is_unlimited]

\* windows.rs 519-534: DataPlanStatusChanged hands the snapshot it builds from
\* the atomics to the handler.
DataPlanStatusChanged(atoms, q, h, ev, late, is_unlimited) ==
  tsfn_call(q, h, NetworkInfo(status_from_u8(atoms.status), ~is_unlimited,
                              atoms.is_low_data_mode, atoms.has_ipv4, atoms.has_ipv6,
                              atoms.has_dns), ev, late)

\* The sequence q without its i-th element.
without_index(q, i) == SubSeq(q, 1, i - 1) \o SubSeq(q, i + 1, Len(q))

\* How many of the running calls p are between two of their own steps.
midway(p) == Cardinality({j \in 1..Len(p) : p[j].kind \in {"plan_stores", "plan_call"}})

\* The running calls p, where those among the indices js that have made their
\* stores for Monitor m and not yet called its handler are marked overtaken.
overtake(p, js, m) ==
  [j \in 1..Len(p) |->
     IF j \in js /\ p[j].kind = "plan_call" /\ p[j].m = m
     THEN [p[j] EXCEPT !.overtaken = TRUE] ELSE p[j]]

\* windows.rs 443-457, 483-504: a native thread runs the i-th dispatched call,
\* of NetworkConnectivityChanged or CostChanged.
Windows_sink_call(i) ==
  /\ platform = "windows" /\ i \in 1..Len(pending)
  /\ pending[i].kind \in {"net", "cost"}
  /\ Len(queue) < MaxQueue
  /\ LET c == pending[i]
         r == IF c.kind = "net"
              THEN NetworkConnectivityChanged(wn[c.m].atoms, queue, c.h, c.bits, c.ev)
              ELSE CostChanged(wn[c.m].atoms, queue, c.h, c.cost, c.ev)
     IN /\ wn' = [wn EXCEPT ![c.m].atoms = r.atoms]
        /\ queue' = r.queue
        /\ pending' = without_index(IF r.queue # queue
                                    THEN overtake(pending, 1..Len(pending), c.m)
                                    ELSE pending, i)
  /\ UNCHANGED <<otherThanWindows, platform, solo, evidence, mstate, owner, nStart,
                 nEvent, jsPc, last, sinks>>

\* windows.rs 507-517: a native thread begins the i-th dispatched call, of
\* DataPlanStatusChanged: it reads the data plan (the call ends there if that
\* fails) and, when the plan is unlimited, stores is_expensive.  The call goes
\* on at its remaining stores; before is what the atomics held.
Windows_plan_begin(i) ==
  /\ platform = "windows" /\ i \in 1..Len(pending)
  /\ pending[i].kind = "plan"
  /\ midway(pending) < MaxMidway
  /\ LET c == pending[i]
     IN IF evidence.fail = "nlm"
        THEN /\ pending' = without_index(pending, i)
             /\ UNCHANGED wn
        ELSE /\ wn' = [wn EXCEPT ![c.m].atoms =
                         DataPlanStatusChanged_first(@, evidence.unlimited)]
             /\ pending' = [pending EXCEPT ![i] =
                              [kind |-> "plan_stores", m |-> c.m, h |-> c.h, ev |-> c.ev,
                               is_unlimited |-> evidence.unlimited,
                               before |-> wn[c.m].atoms]]
  /\ UNCHANGED <<otherThanWindows, platform, solo, evidence, mstate, owner, nStart,
                 nEvent, queue, jsPc, last, sinks>>

\* windows.rs 516-518: the call makes its remaining stores, which commits its
\* update, and goes on at the handler.  The calls that have committed and not
\* yet called the handler are kept in the order of their commits.
Windows_plan_stores(i) ==
  /\ platform = "windows" /\ i \in 1..Len(pending)
  /\ pending[i].kind = "plan_stores"
  /\ LET c == pending[i]
     IN /\ wn' = [wn EXCEPT ![c.m].atoms = DataPlanStatusChanged_stores(@, c.is_unlimited)]
        /\ pending' = Append(without_index(pending, i),
                             [kind |-> "plan_call", m |-> c.m, h |-> c.h, ev |-> c.ev,
                              is_unlimited |-> c.is_unlimited, overtaken |-> FALSE])
  /\ UNCHANGED <<otherThanWindows, platform, solo, evidence, mstate, owner, nStart,
                 nEvent, queue, jsPc, last, sinks>>

\* windows.rs 519-535: the call hands its snapshot to the handler and returns.
Windows_plan_call(i) ==
  /\ platform = "windows" /\ i \in 1..Len(pending)
  /\ pending[i].kind = "plan_call"
  /\ Len(queue) < MaxQueue
  /\ LET c == pending[i]
     IN /\ queue' = DataPlanStatusChanged(wn[c.m].atoms, queue, c.h, c.ev, c.overtaken,
                                          c.is_unlimited)
        /\ pending' = without_index(overtake(pending, 1..(i - 1), c.m), i)
  /\ UNCHANGED <<otherThanWindows, platform, solo, evidence, mstate, owner, nStart,
                 nEvent, jsPc, last, wn, sinks>>

(***************************************************************************)
(* macos: a path as nw_path_* report it; status is the raw                 *)
(* nw_path_status_t value.                                                 *)
(***************************************************************************)
RawPath(st, exp, con, v4, v6, dns) ==
  [status |-> st, expensive |-> exp, constrained |-> con,
   ipv4 |-> v4, ipv6 |-> v6, dns |-> dns]

MacEvidence ==
  { RawPath(1, FALSE, FALSE, TRUE, FALSE, TRUE),
    RawPath(2, FALSE, FALSE, FALSE, FALSE, FALSE),
    RawPath(3, TRUE, TRUE, FALSE, TRUE, TRUE),
    RawPath(4, FALSE, TRUE, TRUE, TRUE, FALSE) }

\* macos.rs 48-58: NWPathStatus from nw_path_status_t.
nw_path_status(raw) ==
  CASE raw = 0 -> "Invalid" [] raw = 1 -> "Satisfied" [] raw = 2 -> "Unsatisfied"
    [] raw = 3 -> "Satisfiable" [] OTHER -> "Unknown"

\* macos.rs 146-156: ctx_to_path: the NWPath of a native path.
mac_ctx_to_path(path) ==
  [status |-> nw_path_status(path.status), is_expensive |-> path.expensive,
   is_constrained |-> path.constrained, has_ipv4 |-> path.ipv4,
   has_ipv6 |-> path.ipv6, has_dns |-> path.dns]

(***************************************************************************)
(* macos: NWPathMonitor.  handler is the update handler set on the native  *)
(* monitor (0: none); started and cancelled are the native monitor's.      *)
(***************************************************************************)
McFresh == [handler |-> 0, started |-> FALSE, cancelled |-> FALSE]

\* macos.rs 82-98: new and new_with_type create the native monitor and set its queue.
Mac_new_any(m) ==
  /\ platform = "macos" /\ jsPc = JsIdle /\ NextMonitor(m)
  /\ mc' = [mc EXCEPT ![m] = McFresh]
  /\ mstate' = [mstate EXCEPT ![m] = "Created"]
  /\ last' = [Completed("new", m, "ok", 0, DefaultInfo, TRUE)
                EXCEPT !.seen = <<evidence, nEvent>>]
  /\ UNCHANGED <<otherThanMacos, platform, solo, evidence, owner, nStart, nEvent,
                 pending, queue, jsPc>>

Mac_new(m) == Mac_new_any(m)

Mac_new_with_type(m) == Mac_new_any(m)

\* nw_path_monitor_start: a monitor neither started nor cancelled starts, and
\* its update handler is called with the current path.
nw_path_monitor_start(mon) ==
  IF mon.started \/ mon.cancelled THEN mon ELSE [mon EXCEPT !.started = TRUE]

\* macos.rs 108-114, 126-132: the update handler is set, then the monitor started.
Mac_start_inner(m, h) ==
  LET set == [mc[m] EXCEPT !.handler = h]
      begun == nw_path_monitor_start(set)
  IN /\ mc' = [mc EXCEPT ![m] = begun]
     /\ pending' = IF begun.started /\ ~set.started
                   THEN Append(pending, [kind |-> "path", m |-> m, h |-> h, path |-> evidence,
                                         ev |-> 0])
                   ELSE pending
     /\ mstate' = [mstate EXCEPT ![m] = "Running"]
     /\ last' = Completed("start", m, "ok", h, DefaultInfo, TRUE)

\* macos.rs 100-134: start / start_weak build the threadsafe function (which may
\* fail), set the update handler and start the monitor.
Mac_start_any(m, build_ok) ==
  /\ platform = "macos" /\ jsPc = JsIdle /\ Alive(m)
  /\ nStart < MaxStarts
  /\ IF build_ok
     THEN /\ Mac_start_inner(m, nStart + 1)
          /\ nStart' = nStart + 1
          /\ owner' = [owner EXCEPT ![nStart + 1] = [m |-> m, at |-> nEvent]]
     ELSE /\ last' = Completed("start", m, "err", 0, DefaultInfo, FALSE)
          /\ UNCHANGED <<mc, pending, mstate, nStart, owner>>
  /\ UNCHANGED <<otherThanMacos, platform, solo, evidence, nEvent, queue, jsPc>>

Mac_start(m, build_ok) == Mac_start_any(m, build_ok)

Mac_start_weak(m, build_ok) == Mac_start_any(m, build_ok)

\* macos.rs 136-143: stop cancels the native monitor.
Mac_stop(m) ==
  /\ platform = "macos" /\ jsPc = JsIdle /\ Alive(m)
  /\ mc' = [mc EXCEPT ![m].started = FALSE, ![m].cancelled = TRUE]
  /\ mstate' = [mstate EXCEPT ![m] = "Stopped"]
  /\ last' = Completed("stop", m, "ok", 0, DefaultInfo, TRUE)
  /\ UNCHANGED <<otherThanMacos, platform, solo, evidence, owner, nStart, nEvent,
                 pending, queue, jsPc>>

\* macos.rs 72-76: the struct has no Drop: the native monitor is left as it is.
Mac_drop(m) ==
  /\ platform = "macos" /\ jsPc = JsIdle /\ Alive(m)
  /\ mstate' = [mstate EXCEPT ![m] = "Dropped"]
  /\ last' = Completed("drop", m, "ok", 0, DefaultInfo, TRUE)
  /\ UNCHANGED <<otherThanMacos, platform, solo, evidence, owner, nStart, nEvent,
                 pending, queue, jsPc, mc>>

\* The update-handler calls of a path change: one per started monitor.
RECURSIVE path_invocations(_, _)
path_invocations(m, path) ==
  IF m > MaxMonitors THEN <<>>
  ELSE (IF mc[m].started /\ mc[m].handler # 0
        THEN <<[kind |-> "path", m |-> m, h |-> mc[m].handler, path |-> path,
                ev |-> nEvent + 1]>>
        ELSE <<>>)
       \o path_invocations(m + 1, path)

\* The path changes: every started monitor's update handler is called.
Mac_path_changed(path) ==
  /\ platform = "macos" /\ nEvent < MaxEvents
  /\ path \in MacEvidence /\ path # evidence
  /\ evidence' = path
  /\ nEvent' = nEvent + 1
  /\ pending' = pending \o path_invocations(1, path)
  /\ UNCHANGED <<otherThanMacos, platform, solo, mstate, owner, nStart, queue, jsPc,
                 last, mc>>

\* macos.rs 108-110, 126-128: the update handler hands the path to the
\* threadsafe function.
Mac_update_handler(i) ==
  /\ platform = "macos" /\ i \in 1..Len(pending)
  /\ Len(queue) < MaxQueue
  /\ queue' = tsfn_call(queue, pending[i].h, pending[i].path, pending[i].ev, FALSE)
  /\ pending' = without_index(pending, i)
  /\ UNCHANGED <<otherThanMacos, platform, solo, evidence, mstate, owner, nStart,
                 nEvent, jsPc, last, mc>>

(***************************************************************************)
(* The js thread runs a waiting call: the consumer callback is invoked.    *)
(***************************************************************************)
\* linux.rs 154-157, windows.rs 391-394, macos.rs 146-156: ctx_to_path makes the
\* callback's argument of the value handed over.
js_value(value) == IF platform = "macos" THEN mac_ctx_to_path(value) ELSE value

\* macos.rs 108-110: the update handler hands over the nw_path_t it was called
\* with, which it does not retain: the native monitor releases that path once
\* a later update has replaced it, here when a native event later than the one
\* the call c reports (for the call made at start: later than the start) has
\* occurred.
path_released(c) ==
  IF c.ev > 0 THEN c.ev < nEvent ELSE owner[c.h].at < nEvent

\* What ctx_to_path can find behind the value of the waiting call c: the value
\* itself, or, for a path that has been released, any path.
js_reads(c) ==
  IF platform = "macos" /\ path_released(c) THEN MacEvidence ELSE {c.value}

js_deliver ==
  /\ jsPc = JsIdle /\ queue # <<>>
  /\ queue' = Tail(queue)
  /\ \E v \in js_reads(Head(queue)) :
       last' = [Completed("deliver", owner[Head(queue).h].m, "ok", Head(queue).h,
                          js_value(v), TRUE)
                  EXCEPT !.ev = Head(queue).ev]
  /\ UNCHANGED <<platform, solo, evidence, mstate, owner, nStart, nEvent, pending, jsPc,
                 linuxVars, wn, sinks, mc>>

(***************************************************************************)
(* The specification.                                                      *)
(***************************************************************************)
EvidenceOf(p) ==
  CASE p = "linux" -> LinuxEvidence
    [] p = "windows" -> WindowsEvidence
    [] p = "macos" -> MacEvidence

InitWith(one) ==
  /\ platform \in Platforms
  /\ solo = one
  /\ evidence \in EvidenceOf(platform)
  /\ mstate = [m \in Monitors |-> "Absent"]
  /\ owner = [h \in Handlers |-> [m |-> 0, at |-> -1]]
  /\ nStart = 0
  /\ nEvent = 0
  /\ pending = <<>>
  /\ queue = <<>>
  /\ jsPc = JsIdle
  /\ last = Completed("none", 0, "ok", 0, DefaultInfo, TRUE)
  /\ NETWORK_INFO = DefaultInfo
  /\ GLOBAL_HANDLER = 0
  /\ infoLock = "free"
  /\ handlerLock = "free"
  /\ cbPc = [t \in {"js", "pump"} |-> "none"]
  /\ cbLoop = 0
  /\ lx = [m \in Monitors |-> LxFresh]
  /\ wn = [m \in Monitors |-> WnFresh]
  /\ sinks = {}
  /\ mc = [m \in Monitors |-> McFresh]

\* The steps of the linux back end other than a change of the evidence.
LinuxSteps ==
  \/ \E m \in Monitors, ok \in BOOLEAN : Linux_new(m, ok)
  \/ Linux_new_lock_handler
  \/ Linux_new_return
  \/ \E m \in Monitors : Linux_current(m)
  \/ \E m \in Monitors, ok \in BOOLEAN : Linux_start(m, ok)
  \/ \E m \in Monitors, ok \in BOOLEAN : Linux_start_weak(m, ok)
  \/ Linux_start_return
  \/ \E m \in Monitors : Linux_stop(m)
  \/ \E m \in Monitors : Linux_drop(m)
  \/ Linux_drop_join
  \/ \E t \in Monitors : Linux_loop_run(t)
  \/ \E t \in Monitors : Linux_loop_exit(t)
  \/ \E t \in Monitors : Linux_cb_begin(t)
  \/ Linux_cb_lock_handler
  \/ Linux_cb_end
  \/ js_deliver

NextLinux ==
  \/ LinuxSteps
  \/ \E ev \in LinuxEvidence : Linux_native_change(ev)

NextWindows ==
  \/ \E m \in Monitors, ok \in BOOLEAN : Windows_new(m, ok)
  \/ \E m \in Monitors : Windows_current(m)
  \/ \E m \in Monitors, ok, a1, a2 \in BOOLEAN : Windows_start(m, ok, a1, a2)
  \/ \E m \in Monitors, ok, a1, a2 \in BOOLEAN : Windows_start_weak(m, ok, a1, a2)
  \/ \E m \in Monitors, u1, u2 \in BOOLEAN : Windows_stop(m, u1, u2)
  \/ \E m \in Monitors : Windows_drop(m)
  \/ \E net \in WinConnectivity : Windows_connectivity_changed(net)
  \/ \E cost \in WinCosts : Windows_cost_changed(cost)
  \/ Windows_dataplan_changed
  \/ \E i \in 1..(MaxEvents * MaxStarts) : Windows_sink_call(i)
  \/ \E i \in 1..(MaxEvents * MaxStarts) : Windows_plan_begin(i)
  \/ \E i \in 1..(MaxEvents * MaxStarts) : Windows_plan_stores(i)
  \/ \E i \in 1..(MaxEvents * MaxStarts) : Windows_plan_call(i)
  \/ js_deliver

NextMacos ==
  \/ \E m \in Monitors : Mac_new(m)
  \/ \E m \in Monitors : Mac_new_with_type(m)
  \/ \E m \in Monitors, ok \in BOOLEAN : Mac_start(m, ok)
  \/ \E m \in Monitors, ok \in BOOLEAN : Mac_start_weak(m, ok)
  \/ \E m \in Monitors : Mac_stop(m)
  \/ \E m \in Monitors : Mac_drop(m)
  \/ \E path \in MacEvidence : Mac_path_changed(path)
  \/ \E i \in 1..(MaxEvents * MaxStarts + MaxStarts) : Mac_update_handler(i)
  \/ js_deliver

Next == NextLinux \/ NextWindows \/ NextMacos

\* A process that constructs one Monitor.
Init == InitWith(TRUE)

Spec == Init /\ [][Next]_vars

\* A linux process that starts with full connectivity and constructs up to
\* MaxMonitors Monitors.
InitMulti == InitWith(FALSE) /\ platform = "linux" /\ evidence.conn = "FULL"

SpecMulti == InitMulti /\ [][NextLinux]_vars

(***************************************************************************)
(* The Status Translator on its own: the raw evidence a platform can       *)
(* present, and the translator run on it over a store that earlier runs    *)
(* have written.                                                           *)
(***************************************************************************)
\* How many values of each raw input the translator is run on.
MaxAdapters == 2

\* linux: every NMConnectivityState, with and without a metered modem.
LinuxRaw ==
  { [conn |-> c, metered |-> IF modem THEN "YES" ELSE "NO",
     devices |-> IF modem THEN <<Device("MODEM", TRUE, FALSE)>> ELSE <<>>,
     primary |-> pr] :
      c \in {"UNKNOWN", "NONE", "PORTAL", "LIMITED", "FULL"},
      modem \in BOOLEAN,
      pr \in {"null", "dns"} }

\* windows: every combination of IsConnectedToInternet, IsConnected, the
\* no-traffic bits and up to MaxAdapters adapters, up or down.
WinRaw ==
  { WinEvidence([bits |-> b, internet |-> i, connected |-> c, has_conn |-> TRUE,
                 adapters |-> a, fail |-> "none"], UNRESTRICTED, TRUE) :
      b \in SUBSET {"V4I", "V4N", "V6N"},
      i \in BOOLEAN, c \in BOOLEAN,
      a \in UNION { [1..n -> {Adapter(FALSE, TRUE), Adapter(TRUE, FALSE)}] :
                      n \in 0..MaxAdapters } }

\* macos: every nw_path_status_t, and one beyond those the crate names.
MacRaw ==
  { RawPath(st, e, FALSE, v4, FALSE, TRUE) : st \in 0..5, e \in BOOLEAN, v4 \in BOOLEAN }

RawOf(p) ==
  CASE p = "linux" -> LinuxRaw
    [] p = "windows" -> WinRaw
    [] p = "macos" -> MacRaw

InitTranslator ==
  /\ platform \in Platforms
  /\ solo = TRUE
  /\ evidence \in RawOf(platform)
  /\ mstate = [m \in Monitors |-> "Absent"]
  /\ owner = [h \in Handlers |-> [m |-> 0, at |-> -1]]
  /\ nStart = 0
  /\ nEvent = 0
  /\ pending = <<>>
  /\ queue = <<>>
  /\ jsPc = JsIdle
  /\ last = Completed("none", 0, "ok", 0, DefaultInfo, TRUE)
  /\ NETWORK_INFO = DefaultInfo
  /\ GLOBAL_HANDLER = 0
  /\ infoLock = "free"
  /\ handlerLock = "free"
  /\ cbPc = [t \in {"js", "pump"} |-> "none"]
  /\ cbLoop = 0
  /\ lx = [m \in Monitors |-> LxFresh]
  /\ wn = [m \in Monitors |-> WnFresh]
  /\ sinks = {}
  /\ mc = [m \in Monitors |-> McFresh]

\* The Signal Source presents other evidence.
Translator_evidence(ev) ==
  /\ ev \in RawOf(platform) /\ ev # evidence
  /\ evidence' = ev
  /\ UNCHANGED <<platform, solo, mstate, owner, nStart, nEvent, pending, queue, jsPc,
                 last, linuxVars, wn, sinks, mc>>

\* linux.rs 164-220: network_changed_cb translates the evidence into
\* NETWORK_INFO.
Linux_translate ==
  /\ platform = "linux"
  /\ NETWORK_INFO' = network_changed_cb(NETWORK_INFO, evidence)
  /\ last' = Completed("translate", 0, "ok", 0, NETWORK_INFO', TRUE)
  /\ UNCHANGED <<platform, solo, evidence, mstate, owner, nStart, nEvent, pending,
                 queue, jsPc, GLOBAL_HANDLER, infoLock, handlerLock, cbPc, cbLoop, lx,
                 wn, sinks, mc>>

\* windows.rs 618-653: get_network_info translates the evidence over the
\* atomics of a Monitor.
Windows_translate ==
  /\ platform = "windows"
  /\ LET r == get_network_info(evidence.bits, evidence, wn[1].atoms)
     IN /\ wn' = [wn EXCEPT ![1].atoms = r.atoms]
        /\ last' = Completed("translate", 0, IF r.ok THEN "ok" ELSE "err", 0, r.info, TRUE)
  /\ UNCHANGED <<otherThanWindows, platform, solo, evidence, mstate, owner, nStart,
                 nEvent, pending, queue, jsPc, sinks>>

\* macos.rs 146-156: ctx_to_path translates the native path.
Mac_translate ==
  /\ platform = "macos"
  /\ last' = Completed("translate", 0, "ok", 0, mac_ctx_to_path(evidence), TRUE)
  /\ UNCHANGED <<otherThanMacos, platform, solo, evidence, mstate, owner, nStart,
                 nEvent, pending, queue, jsPc, mc>>

NextTranslator ==
  \/ \E ev \in LinuxRaw \cup WinRaw \cup MacRaw : Translator_evidence(ev)
  \/ Linux_translate
  \/ Windows_translate
  \/ Mac_translate

SpecTranslator == InitTranslator /\ [][NextTranslator]_vars

(***************************************************************************)
(* The linux back end fed every NMConnectivityState.                       *)
(***************************************************************************)
LinuxFeed == {ev \in LinuxRaw : ev.devices = <<>> /\ ev.primary = "dns"}

InitFeed ==
  /\ platform = "linux"
  /\ solo = TRUE
  /\ evidence \in LinuxFeed
  /\ mstate = [m \in Monitors |-> "Absent"]
  /\ owner = [h \in Handlers |-> [m |-> 0, at |-> -1]]
  /\ nStart = 0
  /\ nEvent = 0
  /\ pending = <<>>
  /\ queue = <<>>
  /\ jsPc = JsIdle
  /\ last = Completed("none", 0, "ok", 0, DefaultInfo, TRUE)
  /\ NETWORK_INFO = DefaultInfo
  /\ GLOBAL_HANDLER = 0
  /\ infoLock = "free"
  /\ handlerLock = "free"
  /\ cbPc = [t \in {"js", "pump"} |-> "none"]
  /\ cbLoop = 0
  /\ lx = [m \in Monitors |-> LxFresh]
  /\ wn = [m \in Monitors |-> WnFresh]
  /\ sinks = {}
  /\ mc = [m \in Monitors |-> McFresh]

NextFeed ==
  \/ LinuxSteps
  \/ \E ev \in LinuxFeed : Linux_native_change(ev)

SpecFeed == InitFeed /\ [][NextFeed]_vars

\* The same, where a thread that can take a step eventually takes it: the
\* spawned thread enters and leaves g_main_loop_run, and a join returns.
FairThreads ==
  /\ \A t \in Monitors : WF_vars(Linux_loop_run(t)) /\ WF_vars(Linux_loop_exit(t))
  /\ WF_vars(Linux_drop_join)

SpecFeedFair == InitFeed /\ [][NextFeed]_vars /\ FairThreads

(***************************************************************************)
(* Properties of the lifecycle.                                            *)
(***************************************************************************)
\* C1: once stop() has returned on a Monitor, no consumer callback that a
\* successful start call of that Monitor registered is invoked.
NoDeliveryAfterStop ==
  (last.op = "deliver" /\ owner[last.h].at >= 0) => mstate[last.m] # "Stopped"

\* C2: once a later start call of the same Monitor has returned Ok, the
\* handler of an earlier successful start call is not handed any native event
\* that occurred after that return.
OldHandlerSilenced ==
  (last.op = "deliver" /\ owner[last.h].at >= 0) =>
    \A h2 \in Handlers :
      (h2 > last.h /\ owner[h2].m = last.m /\ owner[h2].at >= 0)
        => last.ev <= owner[h2].at

\* C3: a native change event never has two calls of the same handler
\* waiting: each event is handed to the registered handler once.
OneDeliveryPerEvent ==
  \A i, j \in 1..Len(queue) :
    (i < j /\ queue[i].ev > 0 /\ queue[i].ev = queue[j].ev) => queue[i].h # queue[j].h

\* C4: a stop() on a Monitor that stop() has already stopped returns without
\* error when the platform fails none of its native calls.
StopTwiceNeverErrors ==
  (last.op = "stop" /\ last.from = "Stopped" /\ last.native_ok) => last.res = "ok"

\* C5: when stop() has returned on a Running Monitor, the Monitor's loop
\* thread has ended and no change callback is executing.
StopJoinsPump ==
  (last.op = "stop" /\ last.res = "ok" /\ last.from = "Running") =>
    /\ lx[last.m].loop \notin {"spawned", "running"}
    /\ cbLoop = 0

\* C6: after a Running Monitor is dropped without a stop(), none of the native
\* subscriptions it made is active and its loop thread is not running.
TeardownReleasesAll ==
  (last.op = "drop" /\ last.from = "Running") =>
    /\ lx[last.m].conns = {}
    /\ lx[last.m].loop \notin {"spawned", "running"}
    /\ {s \in sinks : s.m = last.m} = {}
    /\ ~mc[last.m].started

\* C7: a new() whose native handle cannot be acquired returns an error and
\* changes nothing: no Monitor, no thread, no write to a store, no call of a
\* handler.
NewFailsFast ==
  [][(\E m \in Monitors : Linux_new(m, FALSE) \/ Windows_new(m, FALSE)) =>
       /\ last'.op = "new" /\ last'.res = "err"
       /\ UNCHANGED <<mstate, lx, wn, mc, sinks, NETWORK_INFO, GLOBAL_HANDLER,
                      queue, pending, jsPc, cbPc, cbLoop>>]_vars

\* C7 happens: a new() has failed for want of its native handle.
NewHasFailed ==
  last.op = "new" /\ ~last.native_ok /\ last.res = "err" /\ mstate[last.m] = "Absent"

\* C8: the current() that follows a successful new() has a status other than
\* Unknown, and it is the status the seed probe of that new() made of the
\* evidence it read (on windows: Invalid when it enumerated no connection).
SeedProbeVisible ==
  [][(last.op = "new" /\ last.res = "ok" /\ last'.op = "current" /\ last'.m = last.m) =>
       /\ last'.info.status # "Unknown"
       /\ platform = "linux" => last'.info.status = linux_status(last.seen[1].conn)
       /\ platform = "windows" =>
            last'.info.status = (IF last.seen[1].has_conn
                                 THEN windows_status(last.seen[1].bits, last.seen[1])
                                 ELSE "Invalid")]_vars

\* C8 happens: current() was called on a Monitor just constructed, before any
\* start and any native event, and the probe had found the network reachable.
CurrentAfterNew ==
  /\ last.op = "current" /\ nStart = 0 /\ nEvent = 0
  /\ last.info.status = "Satisfied"

\* C9: with no native event since the seed probe, the current() that follows
\* a successful new() is the translation, from the default values, of the
\* evidence the probe read.
ConstructionResetsSnapshot ==
  [][(/\ last.op = "new" /\ last.res = "ok"
      /\ last'.op = "current" /\ last'.m = last.m
      /\ nEvent = last.seen[2]) =>
       last'.info = network_changed_cb(DefaultInfo, last.seen[1])]_vars

\* C10: a stop() leaves what current() returns as it was.
StopKeepsSnapshot ==
  [][\A m \in Monitors :
       (Linux_stop(m) \/ \E u1, u2 \in BOOLEAN : Windows_stop(m, u1, u2)) =>
         /\ NETWORK_INFO' = NETWORK_INFO
         /\ windows_current(wn'[m].atoms) = windows_current(wn[m].atoms)]_vars

\* C10 happens: stop() has returned on a Running Monitor whose store holds
\* other than the default values.
StoppedWithSnapshot ==
  /\ last.op = "stop" /\ last.res = "ok" /\ last.from = "Running"
  /\ \/ platform = "linux" /\ NETWORK_INFO # DefaultInfo
     \/ platform = "windows" /\ windows_current(wn[last.m].atoms) # DefaultInfo

\* C11: a current() made on a Running Monitor right after the delivery of a
\* native change event, when no event is in flight and no call is waiting,
\* returns the delivered snapshot in all six fields.
CurrentIsLastDelivered ==
  [][(/\ last.op = "deliver" /\ last.ev > 0 /\ owner[last.h].at >= 0
      /\ mstate[last.m] = "Running"
      /\ pending = <<>> /\ queue = <<>> /\ cbLoop = 0
      /\ last'.op = "current" /\ last'.m = last.m)
       => last'.info = last.info]_vars

\* C12: a current() that runs while an update of the Monitor's store is under
\* way, and no other update has touched the store since it began, returns the
\* store as it was before that update or as it is after it, never a mix.
CurrentNeverTorn ==
  [][\A m \in Monitors : \A j \in 1..Len(pending) :
       (/\ Windows_current(m)
        /\ pending[j].kind = "plan_stores" /\ pending[j].m = m
        /\ wn[m].atoms = DataPlanStatusChanged_first(pending[j].before,
                                                     pending[j].is_unlimited))
         => last'.info \in
              {windows_current(pending[j].before),
               windows_current(DataPlanStatusChanged_stores(wn[m].atoms,
                                                            pending[j].is_unlimited))}]_vars

\* C13: the windows translator follows the priority table on every
\* combination of its inputs: internet reachable gives Satisfied; otherwise
\* connected with a no-traffic bit gives Unsatisfied; otherwise an adapter
\* that is up gives Satisfiable; otherwise Invalid.
WindowsPriorityTable ==
  [][Windows_translate =>
       LET no_traffic == evidence.bits \cap {"V4N", "V6N"} # {}
           any_up == \E i \in 1..Len(evidence.adapters) : evidence.adapters[i].up
           st == last'.info.status
       IN /\ last'.res = "ok"
          /\ wn'[1].atoms.status = status_as_u8(st)
          /\ evidence.internet => st = "Satisfied"
          /\ (~evidence.internet /\ evidence.connected /\ no_traffic) => st = "Unsatisfied"
          /\ (~evidence.internet /\ ~(evidence.connected /\ no_traffic) /\ any_up)
               => st = "Satisfiable"
          /\ (~evidence.internet /\ ~(evidence.connected /\ no_traffic) /\ ~any_up)
               => st = "Invalid"]_vars

\* C13 happens: the translator has run on evidence with a no-traffic bit, a
\* connection and an adapter that is up, where three rows of the table compete.
TableRowsCompete ==
  /\ platform = "windows" /\ last.op = "translate"
  /\ evidence.internet /\ evidence.connected /\ "V4N" \in evidence.bits
  /\ \E i \in 1..Len(evidence.adapters) : evidence.adapters[i].up
  /\ last.info.status = "Satisfied"

\* C15: the status a translator run produces is that of a run on the same
\* evidence over a freshly built store, whatever the earlier runs left.
StatusOfEvidenceOnly ==
  [][/\ Linux_translate =>
          last'.info.status = network_changed_cb(DefaultInfo, evidence).status
     /\ Windows_translate =>
          last'.info.status =
            get_network_info(evidence.bits, evidence, WnFresh.atoms).info.status
     /\ Mac_translate => last'.info.status = nw_path_status(evidence.status)]_vars

\* C15 happens: a translator run has written its status over a store that a
\* run on other evidence had written: the metered modem of an earlier run is
\* still recorded and the status is that of the latest run.
StatusReplaced ==
  /\ last.op = "translate"
  /\ platform = "linux"
  /\ NETWORK_INFO.is_expensive /\ ~NETWORK_INFO.is_low_data_mode
  /\ NETWORK_INFO.status = "Invalid"

\* C14: on linux every native connectivity value reaches the handler as
\* Full -> Satisfied, Limited and Portal -> Satisfiable, None -> Unsatisfied,
\* any other -> Invalid, and the values of later events come after those of
\* earlier ones: a call joins the waiting calls with the status of the event
\* it reports, behind the calls of no later event, and the js thread hands the
\* handler the waiting calls from the front, unchanged.
LinuxFeedInOrder ==
  [][/\ Len(queue') > Len(queue) =>
          LET c == queue'[Len(queue')]
              conn == evidence.conn
          IN /\ conn = "FULL" => c.value.status = "Satisfied"
             /\ conn = "LIMITED" => c.value.status = "Satisfiable"
             /\ conn = "PORTAL" => c.value.status = "Satisfiable"
             /\ conn = "NONE" => c.value.status = "Unsatisfied"
             /\ conn = "UNKNOWN" => c.value.status = "Invalid"
             /\ c.ev > 0 => /\ c.ev = nEvent
                            /\ \A i \in 1..Len(queue) : queue[i].ev <= c.ev
     /\ js_deliver => /\ last'.info.status = Head(queue).value.status
                      /\ last'.ev = Head(queue).ev
                      /\ queue' = Tail(queue)]_vars

\* C14 happens: the second native event, a captive portal, has been delivered
\* as Satisfiable.
PortalDelivered ==
  /\ platform = "linux" /\ last.op = "deliver" /\ last.ev = 2
  /\ evidence.conn = "PORTAL" /\ last.info.status = "Satisfiable"

\* C16: a start call that returns an error leaves the Monitor in the state it
\* was in, and no subscription made for the handler of a failed start call
\* stays registered.
FailedStartLeavesNothing ==
  /\ (last.op = "start" /\ last.res = "err") => mstate[last.m] = last.from
  /\ \A s \in sinks : owner[s.h].at >= 0

\* C17: a stop() of a Running Monitor during which a native unregister call
\* fails still returns without error, with the Monitor Stopped, its handler
\* cleared and none of its subscriptions of that start left registered.
StopCompletesDespiteFailure ==
  (last.op = "stop" /\ last.from = "Running" /\ ~last.native_ok) =>
    /\ last.res = "ok"
    /\ mstate[last.m] = "Stopped"
    /\ wn[last.m].handler = 0
    /\ \A s \in sinks : s.m = last.m => s.cookie # wn[last.m].cookie_cost

\* C18: when the adapter enumeration fails during a connectivity update, the
\* update is still committed and handed to the handler: has_dns keeps the
\* value the store held and the status is that of the new evidence.
SubqueryFailureTolerated ==
  [][\A i \in 1..Len(pending) :
       (/\ Windows_sink_call(i) /\ pending[i].kind = "net"
        /\ owner[pending[i].h].at >= 0 /\ evidence.fail = "adapters") =>
         /\ Len(queue') = Len(queue) + 1
         /\ queue'[Len(queue')].value.status = windows_status(pending[i].bits, evidence)
         /\ queue'[Len(queue')].value.has_dns = wn[pending[i].m].atoms.has_dns
         /\ wn'[pending[i].m].atoms.status =
              status_as_u8(windows_status(pending[i].bits, evidence))]_vars

\* C19: the calls waiting for a handler wait in the order in which their
\* updates were committed to the store: none of them was handed over after an
\* update committed later than its own.
CommitOrderKept ==
  \A i \in 1..Len(queue) : ~queue[i].late

\* C20: current() never waits: whenever the js thread is free to call
\* current() on a Monitor, the lock that current() takes is free.
CurrentNeverBlocks ==
  \A m \in Monitors :
    (platform = "linux" /\ jsPc = JsIdle /\ Alive(m)) => infoLock = "free"

\* C21: the handler is held per Monitor: the handler registered for a Running
\* Monitor is one registered through that Monitor, and no call is handed to a
\* handler by the construction of a Monitor.
HandlerPerMonitor ==
  /\ \A m \in Monitors :
       (platform = "linux" /\ mstate[m] = "Running")
         => (GLOBAL_HANDLER # 0 /\ owner[GLOBAL_HANDLER].m = m)
  /\ platform = "linux" => \A i \in 1..Len(queue) : queue[i].ev > 0

\* C22: a Monitor that has been constructed and never started owns no thread:
\* the background context is armed by start, not by new.
CreatedOwnsNoThread ==
  \A m \in Monitors :
    mstate[m] = "Created" => lx[m].loop \notin {"spawned", "running"}

\* C25: a data-plan event alone never changes is_low_data_mode: no step of
\* DataPlanStatusChanged changes the is_low_data_mode a Monitor stores.
DataPlanKeepsLowDataMode ==
  [][\A i \in 1..Len(pending) :
       (Windows_plan_begin(i) \/ Windows_plan_stores(i)) =>
         wn'[pending[i].m].atoms.is_low_data_mode
           = wn[pending[i].m].atoms.is_low_data_mode]_vars

\* C26: has_ipv4, has_ipv6 and has_dns come from the primary path only: on
\* linux, a translator run while there is no primary connection sets none of
\* them, whatever the address configurations of the devices.
FlagsFromPrimaryPath ==
  [][(Linux_translate /\ evidence.primary = "null") =>
       /\ NETWORK_INFO'.has_ipv4 = NETWORK_INFO.has_ipv4
       /\ NETWORK_INFO'.has_ipv6 = NETWORK_INFO.has_ipv6
       /\ NETWORK_INFO'.has_dns = NETWORK_INFO.has_dns]_vars

\* C30: in the linux store is_expensive, has_ipv4, has_ipv6 and has_dns never
\* go from true to false, whatever the step, whereas every update sets status
\* and is_low_data_mode from the evidence of that update.
LinuxFlagsMonotone ==
  [][/\ NETWORK_INFO.is_expensive => NETWORK_INFO'.is_expensive
     /\ NETWORK_INFO.has_ipv4 => NETWORK_INFO'.has_ipv4
     /\ NETWORK_INFO.has_ipv6 => NETWORK_INFO'.has_ipv6
     /\ NETWORK_INFO.has_dns => NETWORK_INFO'.has_dns
     /\ ((\E m \in Monitors : Linux_new(m, TRUE)) \/ (\E t \in Monitors : Linux_cb_begin(t)))
          => /\ NETWORK_INFO'.is_low_data_mode = (evidence.metered \in {"YES", "GUESS_YES"})
             /\ evidence.conn = "FULL" => NETWORK_INFO'.status = "Satisfied"
             /\ evidence.conn = "LIMITED" => NETWORK_INFO'.status = "Satisfiable"
             /\ evidence.conn = "NONE" => NETWORK_INFO'.status = "Unsatisfied"]_vars

\* C30 happens: an update made while NetworkManager reports no device and no
\* primary connection has left has_ipv4 and has_dns set by an earlier update.
FlagsOutliveEvidence ==
  /\ platform = "linux" /\ evidence.conn = "NONE" /\ evidence.devices = <<>>
  /\ NETWORK_INFO.status = "Unsatisfied"
  /\ NETWORK_INFO.has_ipv4 /\ NETWORK_INFO.has_dns

\* C29: the two linux mutexes cannot deadlock: whoever holds GLOBAL_HANDLER
\* holds NETWORK_INFO, taken first, and a thread that holds NETWORK_INFO and
\* goes on to take GLOBAL_HANDLER finds it free.
LockOrderKept ==
  /\ handlerLock # "free" => infoLock = handlerLock
  /\ \A t \in {"js", "pump"} : cbPc[t] = "info" => (infoLock = t /\ handlerLock = "free")
  /\ \A t \in {"js", "pump"} : cbPc[t] = "handler" => (infoLock = t /\ handlerLock = t)

\* C29 happens: the pump thread holds both mutexes in the change callback while
\* the js thread is free to call current() or start() on a Running Monitor.
PumpHoldsBothLocks ==
  /\ platform = "linux" /\ infoLock = "pump" /\ handlerLock = "pump"
  /\ jsPc = JsIdle /\ \E m \in Monitors : mstate[m] = "Running"

\* C28: the teardown of a linux Monitor terminates: a join that Drop has
\* begun eventually returns.
DropTerminates ==
  (jsPc.op = "join") ~> (jsPc.op = "idle")

\* C24: the raw evidence of an update is translated inside the native update
\* callback: what waits for the js thread is a translated snapshot, never the
\* native path itself.
TranslatedBeforeHandOver ==
  \A i \in 1..Len(queue) : "is_expensive" \in DOMAIN queue[i].value

\* C27: a delivered NWPath has the canonical status of the same name as the
\* native status of the path of its update (any other native value: Unknown)
\* and the five other fields of that path.
NWPathOfItsUpdate ==
  [][(js_deliver /\ platform = "macos") =>
       LET p == Head(queue).value
       IN /\ p.status = 0 => last'.info.status = "Invalid"
          /\ p.status = 1 => last'.info.status = "Satisfied"
          /\ p.status = 2 => last'.info.status = "Unsatisfied"
          /\ p.status = 3 => last'.info.status = "Satisfiable"
          /\ p.status \notin 0..3 => last'.info.status = "Unknown"
          /\ last'.info.is_expensive = p.expensive
          /\ last'.info.is_constrained = p.constrained
          /\ last'.info.has_ipv4 = p.ipv4
          /\ last'.info.has_ipv6 = p.ipv6
          /\ last'.info.has_dns = p.dns]_vars

====
